---- MODULE Spec2Model ----
(***************************************************************************)
(* A model of two classes of DmpBbo:                                       *)
(*   - TaskViapoint (dmp_bbo/tasks/TaskViapoint.cpp): the cost evaluation  *)
(*     of a rollout, computeCosts;                                         *)
(*   - DmpWithGainSchedules (dmp/DmpWithGainSchedules.cpp): a Dmp with a   *)
(*     bank of function approximators for the gain schedules.              *)
(*                                                                         *)
(* Doubles are modelled in fixed point: positions, accelerations, times,   *)
(* the radius and the weights are integers, and a cost is an integer       *)
(* number of 1/Scale units, so that the square root of computeCosts is     *)
(* computed (rounded down to 1/Scale) and is not the identity.             *)
(***************************************************************************)
EXTENDS Integers, Sequences, FiniteSets

VARIABLES
    task,      \* the TaskViapoint object: its eight member variables
    rollout,   \* the arguments of the computeCosts call: ts, y, ydd
    costs,     \* the costs vector computeCosts fills in (indices 0..3)
    outcome,   \* "ready" (call not made), "returned", "assert_failed"
    heap,      \* the FunctionApproximator objects, by address (1, 2, ...)
    objects,   \* the DmpWithGainSchedules objects, in order of construction
    call,      \* the last call on a DmpWithGainSchedules, and what it did
    disk,      \* what each output file of a TaskViapoint holds
    io         \* the last file-writing call on the TaskViapoint, and what it did

taskVars == <<task, rollout, costs, outcome>>

gainVars == <<heap, objects, call>>

fileVars == <<disk, io>>

vars == <<task, rollout, costs, outcome, heap, objects, call, disk, io>>

----------------------------------------------------------------------------
(* Bounds of the model *)

\* a matrix of the rollout has at most MaxCells entries (samples x dimensions)
MaxCells == 2
\* positions are 0..MaxPos
MaxPos == 2
\* accelerations are -MaxAcc..MaxAcc
MaxAcc == 1
\* sample times are 0..MaxTime; the viapoint and goal times go one further
MaxTime == 1
\* the viapoint radius is 0 or MaxRadius
MaxRadius == 1
\* each weight is 0..MaxWeight
MaxWeight == 2
\* costs are counted in units of 1/Scale
Scale == 100

(* Program constants *)

\* the viapoint time that selects the minimum-distance mode
TIME_AT_MINIMUM_DIST == -1
\* int n_cost_components = 3, and the value of getNumberOfCostComponents()
n_cost_components == 3

----------------------------------------------------------------------------
(* Vectors and matrices.  A VectorXd of size n is a function on 1..n, a    *)
(* MatrixXd of T rows and D columns is a function on 1..T of row vectors.  *)

Vectors(n, S) == [1..n -> S]

Matrices(T, D, S) == [1..T -> [1..D -> S]]

Shapes == {s \in (1..MaxCells) \X (1..MaxCells) : s[1] * s[2] <= MaxCells}

RECURSIVE SumTo(_, _)
\* f[1] + ... + f[n]
SumTo(f, n) == IF n = 0 THEN 0 ELSE f[n] + SumTo(f, n - 1)

\* the largest r in lo..hi with r * r <= n (binary search)
RECURSIVE ISqrtIn(_, _, _)
ISqrtIn(n, lo, hi) ==
    IF lo >= hi THEN lo
    ELSE LET mid == (lo + hi + 1) \div 2
         IN  IF mid * mid <= n THEN ISqrtIn(n, mid, hi) ELSE ISqrtIn(n, lo, mid - 1)

\* sqrt() of a double that holds the integer n, in units of 1/Scale
Sqrt(n) == ISqrtIn(n * Scale * Scale, 0, (n + 1) * Scale)

\* (row - point).squaredNorm(): the sum of the squared coordinate differences
SquaredNorm(row, point) ==
    SumTo([d \in DOMAIN row |-> (row[d] - point[d]) * (row[d] - point[d])],
          Len(row))

\* minCoeff() of a non-empty vector
MinCoeff(v) == CHOOSE m \in {v[i] : i \in DOMAIN v} : \A i \in DOMAIN v : m <= v[i]

----------------------------------------------------------------------------
(* TaskViapoint::computeCosts, in the order of the code.  Sample indices   *)
(* are the code's (from 0): row k of the code is y[k + 1] here.            *)

RECURSIVE ScanFrom(_, _, _)
\* while (k < ts.size() && ts[k] < t) k++;
ScanFrom(ts, k, t) ==
    IF k < Len(ts) /\ ts[k + 1] < t THEN ScanFrom(ts, k + 1, t) ELSE k

RECURSIVE ScanFromLe(_, _, _)
\* a scan that also steps over a sample at the target time (<= for <)
ScanFromLe(ts, k, t) ==
    IF k < Len(ts) /\ ts[k + 1] <= t THEN ScanFromLe(ts, k + 1, t) ELSE k

\* mutant of viapoint_time_step: the scan compares with <=
viapoint_time_step_le(tk, ro) == ScanFromLe(ro.ts, 0, tk.viapoint_time_)

\* mutant of goal_time_step: the scan compares with <=
goal_time_step_le(tk, ro) == ScanFromLe(ro.ts, 0, tk.goal_time_)

\* int viapoint_time_step = 0; while (...) viapoint_time_step++;
viapoint_time_step(tk, ro) == ScanFrom(ro.ts, 0, tk.viapoint_time_)

\* int goal_time_step = 0; while (...) goal_time_step++;
goal_time_step(tk, ro) == ScanFrom(ro.ts, 0, tk.goal_time_)

\* (y.rowwise() - viapoint_.transpose()).rowwise().squaredNorm().minCoeff()
MinimumDist(tk, ro) ==
    MinCoeff([i \in DOMAIN ro.y |-> SquaredNorm(ro.y[i], tk.viapoint_)]) * Scale

\* sqrt((y_via-viapoint_).array().pow(2).sum()), y_via = y.row(time_step)
DistAtTimeStep(tk, ro, time_step) ==
    Sqrt(SquaredNorm(ro.y[time_step + 1], tk.viapoint_))

\* if (viapoint_radius_>0.0) { dist -= viapoint_radius_; if (dist<0.0) dist = 0.0; }
SubtractRadius(tk, dist) ==
    IF tk.viapoint_radius_ > 0
    THEN IF dist - tk.viapoint_radius_ * Scale < 0
         THEN 0
         ELSE dist - tk.viapoint_radius_ * Scale
    ELSE dist

\* assert(viapoint_time_step < ts.size()) holds, or the branch is not taken
ViapointAssertHolds(tk, ro) ==
    \/ tk.viapoint_weight_ = 0
    \/ tk.viapoint_time_ = TIME_AT_MINIMUM_DIST
    \/ viapoint_time_step(tk, ro) < Len(ro.ts)

\* dist_to_viapoint after the block if (viapoint_weight_!=0.0) { ... }
dist_to_viapoint(tk, ro) ==
    IF tk.viapoint_weight_ # 0
    THEN SubtractRadius(tk,
             IF tk.viapoint_time_ = TIME_AT_MINIMUM_DIST
             THEN MinimumDist(tk, ro)
             ELSE DistAtTimeStep(tk, ro, viapoint_time_step(tk, ro)))
    ELSE 0

\* ydd.array().pow(2).sum()
SquaredSum(m) ==
    SumTo([i \in DOMAIN m |->
              SumTo([d \in DOMAIN m[i] |-> m[i][d] * m[i][d]], Len(m[i]))],
          Len(m))

\* mutant of mean_ydd: the sum is divided by the number of entries of ydd
mean_ydd_per_entry(tk, ro) ==
    IF tk.acceleration_weight_ # 0
    THEN (SquaredSum(ro.ydd) * Scale) \div (Len(ro.ts) * Len(ro.ydd[1]))
    ELSE 0

\* mean_ydd = ydd.array().pow(2).sum()/n_time_steps, n_time_steps = ts.size()
mean_ydd(tk, ro) ==
    IF tk.acceleration_weight_ # 0
    THEN (SquaredSum(ro.ydd) * Scale) \div Len(ro.ts)
    ELSE 0

\* y_after_goal = y.bottomRows(n_time_steps - goal_time_step);
\* (y_after_goal.rowwise() - goal_.transpose()).rowwise().squaredNorm().sum()
SumAfterGoal(tk, ro, time_step) ==
    LET n_time_steps == Len(ro.ts)
        n_rows == n_time_steps - time_step
    IN  SumTo([r \in 1..n_rows |->
                  SquaredNorm(ro.y[n_time_steps - n_rows + r], tk.goal_)],
              n_rows) * Scale

\* delay_cost after the block if (goal_weight_!=0.0) { ... }
delay_cost(tk, ro) ==
    IF tk.goal_weight_ # 0
    THEN SumAfterGoal(tk, ro, goal_time_step(tk, ro))
    ELSE 0

\* mutant of CostVector: the total leaves out the goal component
CostVectorWithoutGoal(c1, c2, c3) ==
    [i \in 0..n_cost_components |->
        CASE i = 0 -> c1 + c2
          [] i = 1 -> c1
          [] i = 2 -> c2
          [] OTHER -> c3]

\* costs.resize(1+n_cost_components); costs[1..3] = ...; costs[0] = their sum
CostVector(c1, c2, c3) ==
    [i \in 0..n_cost_components |->
        CASE i = 0 -> c1 + c2 + c3
          [] i = 1 -> c1
          [] i = 2 -> c2
          [] OTHER -> c3]

\* the costs vector computeCosts returns, when its assert holds
computeCosts(tk, ro) ==
    CostVector(tk.viapoint_weight_ * dist_to_viapoint(tk, ro),
               tk.acceleration_weight_ * mean_ydd(tk, ro),
               tk.goal_weight_ * delay_cost(tk, ro))

\* unsigned int getNumberOfCostComponents(void) const { return 3; }
getNumberOfCostComponents == 3

---------------------------------------------------------------------------------------------------------------------------------------------------
(* TaskViapoint::evaluateRollout: the columns of cost_vars are             *)
(*   t  y_1..y_D  yd_1..yd_D  ydd_1..ydd_D  forcing_1..forcing_D           *)

\* cost_vars.block(0, first_col, n_time_steps, n_cols), columns counted from 0
Block(cost_vars, first_col, n_cols) ==
    [i \in DOMAIN cost_vars |-> [d \in 1..n_cols |-> cost_vars[i][first_col + d]]]

\* assert(n_cost_vars==(1+4*n_dims));
RolloutAssertHolds(tk, cost_vars) ==
    \A i \in DOMAIN cost_vars : Len(cost_vars[i]) = 1 + 4 * Len(tk.viapoint_)

\* ts = cost_vars.col(0); y = cost_vars.block(0, 1, n_time_steps, n_dims);
\* ydd = cost_vars.block(0,1+2*n_dims,n_time_steps,n_dims);
UnpackRollout(tk, cost_vars) ==
    LET n_dims == Len(tk.viapoint_)
    IN  [ts |-> [i \in DOMAIN cost_vars |-> cost_vars[i][1]],
         y |-> Block(cost_vars, 1, n_dims),
         ydd |-> Block(cost_vars, 1 + 2 * n_dims, n_dims)]

----------------------------------------------------------------------------
(* The tasks and rollouts of the model.  One evaluation is one behaviour:  *)
(* a task is constructed and evaluates one rollout, through computeCosts   *)
(* or through evaluateRollout.  The inputs come in three families, one per *)
(* cost component: a family varies what its component reads, and draws the *)
(* inputs of the other two components from smaller sets.                   *)

Pos == 0..MaxPos

\* the coordinates of the viapoint and of the goal: the ends of Pos
Corners == {0, MaxPos}

Acc == (0 - MaxAcc)..MaxAcc

Times == 0..MaxTime

Weights == 0..MaxWeight

Families == {"viapoint", "acceleration", "goal"}

\* TaskViapoint(viapoint, viapoint_time, viapoint_radius, goal, goal_time,
\*              viapoint_weight, acceleration_weight, goal_weight)
TaskViapoint(viapoint, viapoint_time, viapoint_radius, goal, goal_time, viapoint_weight, acceleration_weight, goal_weight) ==
    [viapoint_ |-> viapoint, viapoint_time_ |-> viapoint_time,
     viapoint_radius_ |-> viapoint_radius,
     goal_ |-> goal, goal_time_ |-> goal_time,
     viapoint_weight_ |-> viapoint_weight,
     acceleration_weight_ |-> acceleration_weight,
     goal_weight_ |-> goal_weight]

\* the constructor's asserts: viapoint_radius_>=0.0, viapoint.size()==goal.size()
ConstructorAssertsHold(tk) ==
    /\ tk.viapoint_radius_ >= 0
    /\ DOMAIN tk.viapoint_ = DOMAIN tk.goal_

\* the tasks of a family, for D dimensions
Tasks(fam, D) ==
    LET viapoints == IF fam = "viapoint" THEN Vectors(D, Corners) ELSE Vectors(D, {0})
        vtimes == IF fam = "viapoint"
                  THEN {TIME_AT_MINIMUM_DIST} \cup (0..(MaxTime + 1))
                  ELSE {TIME_AT_MINIMUM_DIST}
        radii == IF fam = "viapoint" THEN {0, MaxRadius} ELSE {0}
        goals == IF fam = "goal" THEN Vectors(D, Corners) ELSE Vectors(D, {1})
        gtimes == IF fam = "goal" THEN 0..(MaxTime + 1) ELSE {0}
        vweights == IF fam = "viapoint" THEN Weights ELSE {0, 1}
        aweights == IF fam = "acceleration" THEN Weights ELSE {0, 1}
        gweights == IF fam = "goal" THEN Weights ELSE {0, 1}
    IN  {TaskViapoint(vp, vt, vr, gl, gt, vw, aw, gw) :
            vp \in viapoints, vt \in vtimes, vr \in radii, gl \in goals,
            gt \in gtimes, vw \in vweights, aw \in aweights, gw \in gweights}

\* the rollouts of a family, of T samples in D dimensions
Rollouts(fam, T, D) ==
    LET tss == IF fam = "acceleration" THEN Vectors(T, {0}) ELSE Vectors(T, Times)
        ys == IF fam = "acceleration" THEN Matrices(T, D, {1}) ELSE Matrices(T, D, Pos)
        ydds == IF fam = "acceleration" THEN Matrices(T, D, Acc) ELSE Matrices(T, D, {1})
    IN  {[ts |-> t, y |-> p, ydd |-> a] : t \in tss, p \in ys, a \in ydds}

\* the cost_vars matrix of a rollout, with zero velocities and forcing terms
CostVars(ro) ==
    LET n_dims == Len(ro.y[1])
    IN  [i \in DOMAIN ro.ts |->
            <<ro.ts[i]>> \o ro.y[i] \o [d \in 1..n_dims |-> 0]
                         \o ro.ydd[i] \o [d \in 1..n_dims |-> 0]]

InitTask ==
    /\ \E fam \in Families, s \in Shapes :
          /\ task \in Tasks(fam, s[2])
          /\ rollout \in Rollouts(fam, s[1], s[2])
    /\ ConstructorAssertsHold(task)
    /\ costs = << >>
    /\ outcome = "ready"
    /\ heap = << >>
    /\ objects = << >>
    /\ call = [op |-> "none"]
    /\ disk = << >>
    /\ io = [op |-> "none"]

\* void computeCosts(ts, y, ydd, costs) const
ComputeCosts ==
    /\ outcome = "ready"
    /\ IF ViapointAssertHolds(task, rollout)
       THEN /\ costs' = computeCosts(task, rollout)
            /\ outcome' = "returned"
       ELSE /\ costs' = costs
            /\ outcome' = "assert_failed"
    /\ UNCHANGED <<task, rollout, gainVars, fileVars>>

\* void evaluateRollout(cost_vars, sample, task_parameters, costs) const
EvaluateRollout ==
    /\ outcome = "ready"
    /\ LET cost_vars == CostVars(rollout)
           ro == UnpackRollout(task, cost_vars)
       IN  IF RolloutAssertHolds(task, cost_vars) /\ ViapointAssertHolds(task, ro)
           THEN /\ costs' = computeCosts(task, ro)
                /\ outcome' = "returned"
           ELSE /\ costs' = costs
                /\ outcome' = "assert_failed"
    /\ UNCHANGED <<task, rollout, gainVars, fileVars>>

NextTask ==
    \/ ComputeCosts
    \/ EvaluateRollout

SpecTask == InitTask /\ [][NextTask]_vars

----------------------------------------------------------------------------
(* TaskViapoint::writeToFile and TaskViapoint::savePlotRolloutScript.      *)
(* Whether a file can be opened is the environment's choice at each call.  *)

\* the output files: the file writeToFile is given, and
\* directory + "/plotRollout.py"
Files == {"filename", "plotRollout.py"}

\* a path on which no open has succeeded
NoFile == <<"no file">>

\* std::ofstream: open sets failbit when the file cannot be opened,
\* and truncates the file when it can
ofstream_open(can_open) ==
    [is_open |-> can_open, failbit |-> ~can_open, written |-> << >>]

\* operator<< : writes nothing once failbit is set
ofstream_put(stream, items) ==
    IF stream.failbit THEN stream
    ELSE [stream EXCEPT !.written = @ \o items]

\* close(): sets failbit when no file is open
ofstream_close(stream) ==
    [stream EXCEPT !.is_open = FALSE, !.failbit = @ \/ ~stream.is_open]

\* the file a stream leaves behind
FileAfter(file, stream, was_opened) ==
    IF was_opened THEN [disk EXCEPT ![file] = stream.written] ELSE disk

\* what the last file-writing call was and did: opened tells whether its open
\* succeeded, result is what it returned, is_open whether a file is open
\* when it returns
Io(op, opened, result, is_open) ==
    [op |-> op, opened |-> opened, result |-> result, is_open |-> is_open]

\* the fields writeToFile writes, in their order
TaskFields(tk) ==
    tk.viapoint_ \o <<tk.viapoint_time_, tk.viapoint_radius_>> \o tk.goal_
       \o <<tk.goal_time_, tk.viapoint_weight_, tk.acceleration_weight_,
            tk.goal_weight_>>

\* what of the script depends on the task: the viapoint, its time, and the
\* plot of a task of one dimension or of more
PlotScript(tk) ==
    <<"viapoint = ", tk.viapoint_, "viapoint_time = ", tk.viapoint_time_,
      IF Len(tk.viapoint_) = 1 THEN "ax.plot(t,y)" ELSE "ax.plot(y[:,0],y[:,1])">>

\* bool writeToFile(std::string filename) const
WriteToFile(can_open) ==
    /\ LET myfile == ofstream_open(can_open)
           filled == ofstream_put(myfile, TaskFields(task))
           closed == ofstream_close(filled)
       IN  /\ disk' = FileAfter("filename", closed, can_open)
           \* return true;
           /\ io' = Io("writeToFile", can_open, TRUE, closed.is_open)
    /\ UNCHANGED <<taskVars, gainVars>>

\* bool savePlotRolloutScript(string directory) const
SavePlotRolloutScript(can_open) ==
    /\ LET file == ofstream_open(can_open)
       IN  IF ~file.is_open
           THEN \* return false;
                /\ disk' = disk
                /\ io' = Io("savePlotRolloutScript", can_open, FALSE, file.is_open)
           ELSE LET filled == ofstream_put(file, PlotScript(task))
                    closed == ofstream_close(filled)
                IN  /\ disk' = FileAfter("plotRollout.py", closed, can_open)
                    \* return true;
                    /\ io' = Io("savePlotRolloutScript", can_open, TRUE,
                                closed.is_open)
    /\ UNCHANGED <<taskVars, gainVars>>

\* a constructed TaskViapoint and no output file yet
InitFiles ==
    /\ \E fam \in {"viapoint", "goal"}, D \in 1..MaxCells : task \in Tasks(fam, D)
    /\ ConstructorAssertsHold(task)
    /\ rollout = [ts |-> << >>]
    /\ costs = << >>
    /\ outcome = "none"
    /\ heap = << >>
    /\ objects = << >>
    /\ call = [op |-> "none"]
    /\ disk = [f \in Files |-> NoFile]
    /\ io = [op |-> "none"]

NextFiles ==
    \/ \E can_open \in BOOLEAN : WriteToFile(can_open)
    \/ \E can_open \in BOOLEAN : SavePlotRolloutScript(can_open)

SpecFiles == InitFiles /\ [][NextFiles]_vars

----------------------------------------------------------------------------
(* DmpWithGainSchedules.  A FunctionApproximator* is an address of heap,   *)
(* or NULL; a FunctionApproximator object is the record at its address.    *)
(* Allocation appends to heap, so that two pointers are equal exactly when *)
(* they point to the same object.  heap holds the objects the class makes; *)
(* the approximators of the caller of the first constructor are his, and   *)
(* are not kept.  The base Dmp is its dimension and whether Dmp::train has *)
(* been run on it.                                                         *)
(*                                                                         *)
(* The computations of gains are const: they change neither heap nor       *)
(* objects, and what can be called after one is what could be called       *)
(* before it.  A behaviour of the model therefore ends with its first      *)
(* computation of gains, or with a failed assert or a crash.               *)

\* the null pointer
NULL == 0

\* a DmpWithGainSchedules has 1..MaxDim dimensions (dim_orig())
MaxDim == 2
\* the list of approximators given to the first constructor has 0..MaxBank entries
MaxBank == 2
\* a gain target (a column of the misc matrix) is one of 1..MaxTarget
MaxTarget == 2
\* a batch of phases has 1..MaxBatch samples
MaxBatch == 2
\* a phase is one of 0..MaxPhase
MaxPhase == 1
\* at most MaxObjects objects are made (the first and its clones)
MaxObjects == 2

\* FunctionApproximator: an object is whether it is trained and what it has
\* learned (0 before training, the target it was last trained on after)
FunctionApproximator(trained, model) == [trained |-> trained, model |-> model]

\* bool FunctionApproximator::isTrained() const
FA_isTrained(fa) == fa.trained

\* FunctionApproximator* FunctionApproximator::clone() const: the copy
FA_clone(fa) == fa

\* void FunctionApproximator::train(inputs, targets, save_directory, overwrite)
FA_train(fa, target) == FunctionApproximator(TRUE, target)

\* void FunctionApproximator::reTrain(inputs, targets, save_directory, overwrite)
FA_reTrain(fa, target) == FunctionApproximator(TRUE, target)

\* void FunctionApproximator::predict(inputs, outputs): the output column
FA_predict(fa, inputs) == [i \in DOMAIN inputs |-> fa.model + inputs[i]]

\* one thing a call did: the base's training, a warning, or a call on the
\* approximator at addr
Event(kind, addr, target) == <<kind, addr, target>>

\* what the last call was and did
Call(op, self, call_outcome, log, phase_state, fa_output, oob, targets) ==
    [op |-> op, self |-> self, outcome |-> call_outcome, log |-> log,
     phase_state |-> phase_state, fa_output |-> fa_output, oob |-> oob,
     targets |-> targets]

\* the calls that change heap or objects
Mutators == {"DmpWithGainSchedules", "train", "clone"}

\* the behaviour goes on: the process has not been ended by a failed assert
\* or a crash, and no gains have been computed
Alive == call.outcome = "ok" /\ call.op \in Mutators

\* the slots (from 1) of a list of pointers that are not NULL, up to slot dd
PresentUpTo(list, dd) == {e \in 1..dd : list[e] # NULL}

\* void initFunctionApproximatorsExtDims(function_approximators_gains):
\* the heap after the clones are made, and function_approximators_gains_;
\* the pointers of the list point into the memory from
initFunctionApproximatorsExtDims(hp, from, list) ==
    IF list = << >>
    THEN [heap |-> hp, bank |-> << >>]
    ELSE LET n_present == Cardinality(PresentUpTo(list, Len(list)))
             slot(k) == CHOOSE dd \in PresentUpTo(list, Len(list)) :
                            Cardinality(PresentUpTo(list, dd)) = k
         IN  [heap |-> hp \o [k \in 1..n_present |-> FA_clone(from[list[slot(k)]])],
              bank |-> [dd \in 1..Len(list) |->
                           IF list[dd] = NULL
                           THEN NULL
                           ELSE Len(hp) + Cardinality(PresentUpTo(list, dd))]]

\* DmpWithGainSchedules(Dmp* dmp, function_approximators_gains): Dmp(*dmp),
\* then initFunctionApproximatorsExtDims
DmpWithGainSchedules(hp, dmp, from, list) ==
    LET made == initFunctionApproximatorsExtDims(hp, from, list)
    IN  [heap |-> made.heap,
         object |-> [dim_orig |-> dmp.dim_orig,
                     dmp_trained |-> dmp.dmp_trained,
                     function_approximators_gains_ |-> made.bank]]

\* fa_output.resize(T,dim_orig()); fa_output.fill(0.0);
Zeros(T, D) == [i \in 1..T |-> [d \in 1..D |-> 0]]

\* fa_output.col(i_dim) = column, i_dim from 0
SetCol(m, i_dim, column) ==
    [i \in DOMAIN m |-> [m[i] EXCEPT ![i_dim + 1] = column[i]]]

\* mutant of SlotPredicts: isTrained() is not asked
SlotPredictsUntrained(hp, pointer) == pointer # NULL

\* if (function_approximators_gains_[i_dim]!=NULL)
\*   if (function_approximators_gains_[i_dim]->isTrained())
SlotPredicts(hp, pointer) == pointer # NULL /\ FA_isTrained(hp[pointer])

\* the indices (from 0) at which the loop of
\* computeFunctionApproximatorOutputExtendedDimensions reads past the end of
\* function_approximators_gains_
PastTheEnd(obj) ==
    {i_dim \in 0..(obj.dim_orig - 1) : i_dim >= Len(obj.function_approximators_gains_)}

\* what a read past the end of the vector can do: the process crashes, the
\* word read is a null pointer, or it is a pointer to memory that passes for
\* a trained approximator
ReadOutcomes == {"crash", "null", "garbage"}

RECURSIVE GainLoop(_, _, _, _, _, _)
\* for (int i_dim=0; i_dim<dim_orig(); i_dim++) { ... }, from i_dim on
GainLoop(obj, hp, phase_state, ub, i_dim, acc) ==
    IF i_dim >= obj.dim_orig \/ acc.outcome # "ok"
    THEN acc
    ELSE LET bank == obj.function_approximators_gains_
         IN  IF i_dim \in PastTheEnd(obj)
             THEN GainLoop(obj, hp, phase_state, ub, i_dim + 1,
                      CASE ub[i_dim] = "crash" ->
                               [acc EXCEPT !.outcome = "crash", !.oob = TRUE,
                                           !.fa_output = << >>]
                        [] ub[i_dim] = "null" ->
                               [acc EXCEPT !.oob = TRUE]
                        [] OTHER ->
                               [acc EXCEPT !.oob = TRUE,
                                           !.fa_output = SetCol(@, i_dim,
                                               [i \in DOMAIN phase_state |-> MaxTarget])])
             ELSE IF SlotPredicts(hp, bank[i_dim + 1])
                  THEN GainLoop(obj, hp, phase_state, ub, i_dim + 1,
                           [acc EXCEPT !.fa_output = SetCol(@, i_dim,
                                           FA_predict(hp[bank[i_dim + 1]], phase_state)),
                                       !.log = Append(@, Event("predict", bank[i_dim + 1], 0))])
                  ELSE GainLoop(obj, hp, phase_state, ub, i_dim + 1, acc)

\* void computeFunctionApproximatorOutputExtendedDimensions(phase_state, fa_output) const
computeFunctionApproximatorOutputExtendedDimensions(obj, hp, phase_state, ub) ==
    GainLoop(obj, hp, phase_state, ub, 0,
             [outcome |-> "ok", fa_output |-> Zeros(Len(phase_state), obj.dim_orig),
              log |-> << >>, oob |-> FALSE])

\* a call of an operation that computes the gains of a batch of phases
GainCall(op, self, phase_state) ==
    /\ Alive
    /\ \E ub \in [PastTheEnd(objects[self]) -> ReadOutcomes] :
          LET r == computeFunctionApproximatorOutputExtendedDimensions(
                       objects[self], heap, phase_state, ub)
          IN  call' = Call(op, self, r.outcome, r.log, phase_state, r.fa_output,
                           r.oob, << >>)
    /\ UNCHANGED <<heap, objects, taskVars, fileVars>>

\* computeFunctionApproximatorOutputExtendedDimensions, called on a batch
ComputeGainOutputs(self, phase_state) ==
    GainCall("computeFunctionApproximatorOutputExtendedDimensions", self, phase_state)

\* void integrateStart(x, xd, gains) const: Dmp::integrateStart, then the
\* gains of the phase of x
IntegrateStart(self, phase) == GainCall("integrateStart", self, <<phase>>)

\* void integrateStep(dt, x, x_updated, xd_updated, gains) const:
\* Dmp::integrateStep, then the gains of the phase of x_updated
IntegrateStep(self, phase) == GainCall("integrateStep", self, <<phase>>)

\* void analyticalSolution(ts, xs, xds, forcing_terms, fa_output, fa_gains) const
AnalyticalSolution(self, phase_state) ==
    GainCall("analyticalSolution", self, phase_state)

\* void analyticalSolution(ts, trajectory) const: the gains become the misc
\* matrix of the trajectory
AnalyticalSolutionTrajectory(self, phase_state) ==
    GainCall("analyticalSolution(trajectory)", self, phase_state)

\* mutant of TrainAssertsHold: the bank is not asked to be non-empty
TrainAssertsHoldColumnsOnly(bank, targets) == Len(targets) = Len(bank)

\* assert(targets.cols()==(int)function_approximators_gains_.size());
\* assert(!function_approximators_gains_.empty());
TrainAssertsHold(bank, targets) == Len(targets) = Len(bank) /\ bank # << >>

RECURSIVE TrainLoop(_, _, _, _, _)
\* for (unsigned int dd=0; dd<function_approximators_gains_.size(); dd++) { ... }
\* from dd on: the heap and the log after it
TrainLoop(bank, targets, dd, hp, log) ==
    IF dd >= Len(bank)
    THEN [heap |-> hp, log |-> log]
    ELSE LET pointer == bank[dd + 1]
             cur_target == targets[dd + 1]
         IN  IF pointer = NULL
             THEN TrainLoop(bank, targets, dd + 1, hp,
                            Append(log, Event("warning", NULL, 0)))
             ELSE IF FA_isTrained(hp[pointer])
                  THEN TrainLoop(bank, targets, dd + 1,
                                 [hp EXCEPT ![pointer] = FA_reTrain(@, cur_target)],
                                 Append(log, Event("reTrain", pointer, cur_target)))
                  ELSE TrainLoop(bank, targets, dd + 1,
                                 [hp EXCEPT ![pointer] = FA_train(@, cur_target)],
                                 Append(log, Event("train", pointer, cur_target)))

\* void train(trajectory, save_directory, overwrite); targets = trajectory.misc()
Train(self, targets) ==
    /\ Alive
    /\ LET bank == objects[self].function_approximators_gains_
           \* Dmp::train(trajectory,save_directory,overwrite);
           trained == [objects EXCEPT ![self].dmp_trained = TRUE]
           log == <<Event("Dmp::train", NULL, 0)>>
       IN  IF ~TrainAssertsHold(bank, targets)
           THEN /\ objects' = trained
                /\ heap' = heap
                /\ call' = Call("train", self, "assert_failed", log, << >>, << >>,
                                FALSE, targets)
           ELSE LET r == TrainLoop(bank, targets, 0, heap, log)
                IN  /\ objects' = trained
                    /\ heap' = r.heap
                    /\ call' = Call("train", self, "ok", r.log, << >>, << >>,
                                    FALSE, targets)
    /\ UNCHANGED <<taskVars, fileVars>>

\* what function_approximators_gains_[ff]->clone() can do on a null pointer:
\* the process crashes, or the call returns a pointer to memory that passes
\* for an untrained or for a trained approximator
NullCallOutcomes == {"crash", "garbage untrained", "garbage trained"}

\* DmpWithGainSchedules* clone(void) const
Clone(self) ==
    /\ Alive
    /\ Len(objects) < MaxObjects
    /\ LET obj == objects[self]
           bank == obj.function_approximators_gains_
           nulls == {ff \in DOMAIN bank : bank[ff] = NULL}
       IN  \E ub \in [nulls -> NullCallOutcomes] :
              LET \* function_approximators_gains.push_back(...[ff]->clone());
                  copy(ff) == IF bank[ff] = NULL
                              THEN IF ub[ff] = "garbage untrained"
                                   THEN FunctionApproximator(FALSE, 0)
                                   ELSE FunctionApproximator(TRUE, MaxTarget)
                              ELSE FA_clone(heap[bank[ff]])
                  crashes == {ff \in nulls : ub[ff] = "crash"}
                  n_copied == IF crashes = {}
                              THEN Len(bank)
                              ELSE (CHOOSE ff \in crashes : \A g \in crashes : ff <= g) - 1
                  copies == heap \o [ff \in 1..n_copied |-> copy(ff)]
                  list == [ff \in 1..n_copied |-> Len(heap) + ff]
                  \* new DmpWithGainSchedules(Dmp::clone(), function_approximators_gains)
                  made == DmpWithGainSchedules(copies, obj, copies, list)
              IN  IF crashes # {}
                  THEN /\ heap' = copies
                       /\ objects' = objects
                       /\ call' = Call("clone", self, "crash", << >>, << >>, << >>,
                                       FALSE, << >>)
                  ELSE /\ heap' = made.heap
                       /\ objects' = Append(objects, made.object)
                       /\ call' = Call("clone", self, "ok", << >>, << >>, << >>,
                                       FALSE, << >>)
    /\ UNCHANGED <<taskVars, fileVars>>

InitGains ==
    /\ task = [viapoint_ |-> << >>]
    /\ disk = << >>
    /\ io = [op |-> "none"]
    /\ rollout = [ts |-> << >>]
    /\ costs = << >>
    /\ outcome = "none"
    /\ \E D \in 1..MaxDim, n \in 0..MaxBank :
          \E kinds \in [1..n -> 0..(1 + MaxTarget)] :
             LET \* kind 0: NULL, 1: untrained, 1 + m: trained on target m
                 present == {e \in 1..n : kinds[e] # 0}
                 slot(k) == CHOOSE e \in present :
                                Cardinality({f \in present : f <= e}) = k
                 caller == [k \in 1..Cardinality(present) |->
                               IF kinds[slot(k)] = 1
                               THEN FunctionApproximator(FALSE, 0)
                               ELSE FunctionApproximator(TRUE, kinds[slot(k)] - 1)]
                 list == [e \in 1..n |->
                             IF kinds[e] = 0
                             THEN NULL
                             ELSE Cardinality({f \in present : f <= e})]
                 made == DmpWithGainSchedules(<< >>,
                             [dim_orig |-> D, dmp_trained |-> FALSE], caller, list)
             IN  /\ heap = made.heap
                 /\ objects = <<made.object>>
    /\ call = Call("DmpWithGainSchedules", 1, "ok", << >>, << >>, << >>, FALSE, << >>)

PhaseBatches == UNION {[1..T -> 0..MaxPhase] : T \in 1..MaxBatch}

NextGains ==
    \/ \E self \in 1..Len(objects), phase_state \in PhaseBatches :
          ComputeGainOutputs(self, phase_state)
    \/ \E self \in 1..Len(objects), phase \in 0..MaxPhase :
          IntegrateStart(self, phase)
    \/ \E self \in 1..Len(objects), phase \in 0..MaxPhase :
          IntegrateStep(self, phase)
    \/ \E self \in 1..Len(objects), phase_state \in PhaseBatches :
          AnalyticalSolution(self, phase_state)
    \/ \E self \in 1..Len(objects), phase_state \in PhaseBatches :
          AnalyticalSolutionTrajectory(self, phase_state)
    \/ \E self \in 1..Len(objects), C \in 0..MaxBank :
          \E targets \in [1..C -> 1..MaxTarget] : Train(self, targets)
    \/ \E self \in 1..Len(objects) : Clone(self)

SpecGains == InitGains /\ [][NextGains]_vars

----------------------------------------------------------------------------
(* What the claims about computeCosts speak of, stated without the scan    *)
(* and without the loops of the code.                                      *)

RECURSIVE SetSum(_, _)
\* the sum of f over the finite set S
SetSum(f, S) ==
    IF S = {} THEN 0
    ELSE LET x == CHOOSE x \in S : TRUE IN f[x] + SetSum(f, S \ {x})

\* the squared Euclidean distance of two points
SquaredDistance(p, q) ==
    SetSum([d \in DOMAIN p |-> (p[d] - q[d]) * (p[d] - q[d])], DOMAIN p)

\* d is the square root of sq, in units of 1/Scale, rounded down
IsRootOf(d, sq) ==
    /\ d >= 0
    /\ d * d <= sq * Scale * Scale
    /\ (d + 1) * (d + 1) > sq * Scale * Scale

\* the Euclidean distance of two points, in units of 1/Scale
EuclideanDistance(p, q) ==
    LET sq == SquaredDistance(p, q)
        whole == CHOOSE r \in 0..sq : r * r <= sq /\ (r + 1) * (r + 1) > sq
    IN  CHOOSE d \in (whole * Scale)..((whole + 1) * Scale) : IsRootOf(d, sq)

\* the sample indices (from 0) whose time is not less than t
SamplesAtOrAfter(ts, t) == {k \in 0..(Len(ts) - 1) : ts[k + 1] >= t}

\* the least of them
FirstSampleAtOrAfter(ts, t) ==
    CHOOSE k \in SamplesAtOrAfter(ts, t) : \A j \in SamplesAtOrAfter(ts, t) : k <= j

\* the row (from 1) of y nearest to the viapoint
NearestRow(tk, ro) ==
    CHOOSE i \in DOMAIN ro.y :
        \A j \in DOMAIN ro.y :
            SquaredDistance(ro.y[i], tk.viapoint_) <= SquaredDistance(ro.y[j], tk.viapoint_)

\* the row (from 1) of y the viapoint component is evaluated at
EvaluatedRow(tk, ro) ==
    IF tk.viapoint_time_ = TIME_AT_MINIMUM_DIST
    THEN NearestRow(tk, ro)
    ELSE FirstSampleAtOrAfter(ro.ts, tk.viapoint_time_) + 1

Max(a, b) == IF a >= b THEN a ELSE b

\* the viapoint branch of computeCosts is taken in the timed mode
TimedMode == task.viapoint_weight_ # 0 /\ task.viapoint_time_ # TIME_AT_MINIMUM_DIST

\* the viapoint branch of computeCosts is taken in the minimum-distance mode
MinimumDistMode == task.viapoint_weight_ # 0 /\ task.viapoint_time_ = TIME_AT_MINIMUM_DIST

----------------------------------------------------------------------------
(* C1: every returned cost vector has 4 = 1 + getNumberOfCostComponents()  *)
(* entries, entry 0 is the sum of entries 1, 2 and 3, and the entry of a   *)
(* component whose weight is 0 is 0, so that all-zero weights give total 0.*)
CostsTotalIsSumOfComponents ==
    outcome = "returned" =>
        /\ DOMAIN costs = 0..getNumberOfCostComponents
        /\ Cardinality(DOMAIN costs) = 4
        /\ costs[0] = costs[1] + costs[2] + costs[3]
        /\ task.viapoint_weight_ = 0 => costs[1] = 0
        /\ task.acceleration_weight_ = 0 => costs[2] = 0
        /\ task.goal_weight_ = 0 => costs[3] = 0
        /\ (/\ task.viapoint_weight_ = 0
            /\ task.acceleration_weight_ = 0
            /\ task.goal_weight_ = 0) => costs[0] = 0

\* C1's case: a returned vector whose three components are all non-zero
CostsAllComponentsActive ==
    /\ outcome = "returned"
    /\ costs[1] > 0 /\ costs[2] > 0 /\ costs[3] > 0

(* C2: in the timed mode with radius 0, the viapoint component is the      *)
(* weight times the Euclidean distance of the row at the least index k     *)
(* with ts[k] >= viapoint_time to the viapoint; when no sample time        *)
(* reaches viapoint_time the call fails its assert and returns no costs.   *)
TimedViapointCost ==
    (outcome # "ready" /\ TimedMode /\ task.viapoint_radius_ = 0) =>
        IF SamplesAtOrAfter(rollout.ts, task.viapoint_time_) # {}
        THEN /\ outcome = "returned"
             /\ costs[1] = task.viapoint_weight_ * (costs[1] \div task.viapoint_weight_)
             /\ IsRootOf(costs[1] \div task.viapoint_weight_,
                         SquaredDistance(
                             rollout.y[FirstSampleAtOrAfter(rollout.ts, task.viapoint_time_) + 1],
                             task.viapoint_))
        ELSE /\ outcome = "assert_failed"
             /\ costs = << >>

\* C2's case: the scan has stepped over a sample and the distance is not 0
TimedViapointAtLaterSample ==
    /\ outcome = "returned" /\ TimedMode /\ task.viapoint_radius_ = 0
    /\ FirstSampleAtOrAfter(rollout.ts, task.viapoint_time_) = 1
    /\ rollout.y[1] # rollout.y[2]
    /\ costs[1] > Scale

(* C3, as claimed: in the minimum-distance mode (radius 0) the viapoint    *)
(* component is the weight times the least Euclidean distance of a row of  *)
(* y to the viapoint, and not the square of that distance.                 *)
MinimumDistIsEuclidean ==
    (outcome = "returned" /\ MinimumDistMode /\ task.viapoint_radius_ = 0) =>
        costs[1] = task.viapoint_weight_
                     * EuclideanDistance(rollout.y[NearestRow(task, rollout)], task.viapoint_)

(* C4, as claimed: with a radius r > 0, in both modes, the viapoint        *)
(* component is the weight times max(0, d - r), d the Euclidean distance   *)
(* of the evaluated sample to the viapoint.                                *)
RadiusSubtractedFromDistance ==
    (outcome = "returned" /\ task.viapoint_weight_ # 0 /\ task.viapoint_radius_ > 0) =>
        costs[1] = task.viapoint_weight_
                     * Max(0, EuclideanDistance(rollout.y[EvaluatedRow(task, rollout)],
                                                task.viapoint_)
                              - task.viapoint_radius_ * Scale)

\* the sum of the squares of all entries of the matrix m
SumOfSquares(m) ==
    SetSum([c \in (DOMAIN m) \X (DOMAIN m[1]) |-> m[c[1]][c[2]] * m[c[1]][c[2]]],
           (DOMAIN m) \X (DOMAIN m[1]))

(* C5, as claimed: the smoothness component is the weight times the sum of *)
(* the squared accelerations divided by T * D.                             *)
SmoothnessIsMeanOverAllEntries ==
    (outcome = "returned" /\ task.acceleration_weight_ # 0) =>
        costs[2] = task.acceleration_weight_
                     * ((SumOfSquares(rollout.ydd) * Scale)
                            \div (Len(rollout.ydd) * Len(rollout.ydd[1])))

(* C5, amended: the smoothness component is the weight times the sum of    *)
(* the squared accelerations divided by the number of samples T alone.     *)
SmoothnessIsMeanOverSamples ==
    (outcome = "returned" /\ task.acceleration_weight_ # 0) =>
        costs[2] = task.acceleration_weight_
                     * ((SumOfSquares(rollout.ydd) * Scale) \div Len(rollout.ydd))

\* C5's case: accelerations in two dimensions, not all of the same size
SmoothnessInTwoDimensions ==
    /\ outcome = "returned" /\ task.acceleration_weight_ > 1
    /\ Len(rollout.ydd[1]) = 2
    /\ rollout.ydd[1][1] = 0 /\ rollout.ydd[1][2] # 0

\* the sum over the samples i >= k (from 0) of the squared distance to the goal
SquaredDistancesFrom(tk, ro, k) ==
    SetSum([i \in 0..(Len(ro.ts) - 1) |-> SquaredDistance(ro.y[i + 1], tk.goal_)],
           {i \in 0..(Len(ro.ts) - 1) : i >= k})

(* C6, as claimed: the goal component is the weight times the sum of the   *)
(* squared distances to the goal of the samples from the least index k     *)
(* with ts[k] >= goal_time on, and a goal time beyond every sample time is *)
(* out of range: the call does not return a cost.                          *)
GoalTimeBeyondSamplesFails ==
    (outcome # "ready" /\ task.goal_weight_ # 0) =>
        IF SamplesAtOrAfter(rollout.ts, task.goal_time_) # {}
        THEN outcome = "returned" =>
                costs[3] = task.goal_weight_ * Scale
                             * SquaredDistancesFrom(task, rollout,
                                   FirstSampleAtOrAfter(rollout.ts, task.goal_time_))
        ELSE outcome # "returned"

(* C6, amended: the goal component is the weight times the sum of the      *)
(* squared distances to the goal of the samples from index k on, k the     *)
(* least index with ts[k] >= goal_time, or the sample count when there is  *)
(* none: a goal time beyond every sample time gives the component 0, and   *)
(* the goal lookup never fails the call (only the viapoint's assert does). *)
GoalDelayCost ==
    (outcome # "ready" /\ task.goal_weight_ # 0) =>
        /\ outcome = "returned" =>
              costs[3] = task.goal_weight_ * Scale
                           * SquaredDistancesFrom(task, rollout,
                                 IF SamplesAtOrAfter(rollout.ts, task.goal_time_) # {}
                                 THEN FirstSampleAtOrAfter(rollout.ts, task.goal_time_)
                                 ELSE Len(rollout.ts))
        /\ (outcome = "returned" /\ SamplesAtOrAfter(rollout.ts, task.goal_time_) = {}) =>
              costs[3] = 0
        /\ outcome = "assert_failed" =>
              (TimedMode /\ SamplesAtOrAfter(rollout.ts, task.viapoint_time_) = {})

\* C6's case: a goal time beyond every sample time, far from the goal
GoalTimeBeyondSamplesReturned ==
    /\ outcome = "returned" /\ task.goal_weight_ # 0
    /\ SamplesAtOrAfter(rollout.ts, task.goal_time_) = {}
    /\ \A i \in DOMAIN rollout.y : rollout.y[i] # task.goal_

----------------------------------------------------------------------------
(* What the claims about DmpWithGainSchedules speak of.                    *)

\* the operations that compute gains
GainOps ==
    {"computeFunctionApproximatorOutputExtendedDimensions", "integrateStart",
     "integrateStep", "analyticalSolution", "analyticalSolution(trajectory)"}

\* the bank of approximators of object i
Bank(i) == objects[i].function_approximators_gains_

\* slot d (from 1) of object i holds an approximator that is trained
SlotReady(i, d) == Bank(i)[d] # NULL /\ heap[Bank(i)[d]].trained

(* C7: for a bank of D slots and a batch of T phases, the gains are a      *)
(* T x D matrix whose column d is the prediction of slot d when the slot   *)
(* is present and trained and is all zeros otherwise; predict is called on *)
(* the present and trained slots and on no other, and no slot outside the  *)
(* bank is read.                                                           *)
GainColumnsFollowSlots ==
    (call.op \in GainOps /\ Len(Bank(call.self)) = objects[call.self].dim_orig) =>
        LET self == call.self
            D == objects[self].dim_orig
            T == Len(call.phase_state)
        IN  /\ call.outcome = "ok"
            /\ ~call.oob
            /\ DOMAIN call.fa_output = 1..T
            /\ \A i \in 1..T : DOMAIN call.fa_output[i] = 1..D
            /\ \A d \in 1..D : \A i \in 1..T :
                  call.fa_output[i][d] =
                      IF SlotReady(self, d)
                      THEN FA_predict(heap[Bank(self)[d]], call.phase_state)[i]
                      ELSE 0
            /\ \A k \in DOMAIN call.log : call.log[k][1] = "predict"
            /\ {call.log[k][2] : k \in DOMAIN call.log}
                  = {Bank(self)[d] : d \in {e \in 1..D : SlotReady(self, e)}}

\* C7's case: a batch of two phases on a bank of a trained slot, whose column
\* is not zero, and a slot that is absent or untrained
GainsOfMixedBank ==
    /\ call.op \in GainOps /\ call.outcome = "ok"
    /\ Len(call.phase_state) = 2
    /\ objects[call.self].dim_orig = 2 /\ Len(Bank(call.self)) = 2
    /\ SlotReady(call.self, 1) /\ ~SlotReady(call.self, 2)
    /\ call.fa_output[1][1] # 0 /\ call.fa_output[2][2] = 0

(* C8, as claimed: clone() completes for every bank, also one with NULL    *)
(* slots, and the bank of the clone has the same length and the same       *)
(* present and absent slots, each present slot a copy at another address.  *)
CloneCompletesWithSameSlots ==
    call.op = "clone" =>
        /\ call.outcome = "ok"
        /\ Len(Bank(Len(objects))) = Len(Bank(call.self))
        /\ \A ff \in DOMAIN Bank(call.self) :
              IF Bank(call.self)[ff] = NULL
              THEN Bank(Len(objects))[ff] = NULL
              ELSE /\ Bank(Len(objects))[ff] # NULL
                   /\ Bank(Len(objects))[ff] # Bank(call.self)[ff]
                   /\ heap[Bank(Len(objects))[ff]] = heap[Bank(call.self)[ff]]

(* C9, as claimed: on an empty bank every operation that computes gains    *)
(* completes without reading a slot of the bank, and every gain is 0.      *)
EmptyBankReadsNoSlot ==
    (call.op \in GainOps /\ Bank(call.self) = << >>) =>
        /\ call.outcome = "ok"
        /\ ~call.oob
        /\ \A i \in DOMAIN call.fa_output : \A d \in DOMAIN call.fa_output[i] :
              call.fa_output[i][d] = 0

\* train was called on an empty bank, or with targets of another column count
TrainPreconditionViolated ==
    /\ call.op = "train"
    /\ \/ Bank(call.self) = << >>
       \/ Len(call.targets) # Len(Bank(call.self))

(* C10, as claimed: train on an empty bank, or with a misc matrix whose    *)
(* column count is not the bank length, fails before any mutation: neither *)
(* the base nor an approximator has been trained when it fails.            *)
TrainFailsBeforeAnyMutation ==
    TrainPreconditionViolated =>
        /\ call.outcome = "assert_failed"
        /\ call.log = << >>

(* C10, amended: such a call fails its assert after Dmp::train has trained *)
(* the base and before any approximator is trained or retrained: the       *)
(* objects of heap and the banks are as before the call.                   *)
TrainFailsAfterBaseTraining ==
    [][TrainPreconditionViolated' =>
          /\ call'.outcome = "assert_failed"
          /\ call'.log = <<Event("Dmp::train", NULL, 0)>>
          /\ heap' = heap
          /\ objects' = [objects EXCEPT ![call'.self].dmp_trained = TRUE]]_vars

\* C10's case: a failed train on a bank that holds an untrained approximator,
\* of an object whose base is now trained
TrainFailedOnMismatch ==
    /\ TrainPreconditionViolated
    /\ call.outcome = "assert_failed"
    /\ Len(call.targets) > Len(Bank(call.self))
    /\ \E d \in DOMAIN Bank(call.self) :
          Bank(call.self)[d] # NULL /\ ~heap[Bank(call.self)[d]].trained
    /\ objects[call.self].dmp_trained

\* the slots (from 1) of the bank of object i that hold an approximator
PresentSlots(i) == {d \in DOMAIN Bank(i) : Bank(i)[d] # NULL}

(* C11, as claimed: a train call whose asserts hold trains the base first  *)
(* and then visits the slots in index order, an absent slot with a         *)
(* warning, a present slot with train or reTrain on target column d, and   *)
(* leaves every present slot trained; a computation of gains after it      *)
(* completes and writes a prediction into the column of every present slot *)
(* and zeros into the column of every absent one.                          *)
TrainedBankPredictsInPresentSlots ==
    /\ (call.op = "train" /\ call.outcome = "ok") =>
          /\ objects[call.self].dmp_trained
          /\ Len(call.log) = Len(Bank(call.self)) + 1
          /\ call.log[1] = Event("Dmp::train", NULL, 0)
          /\ \A d \in DOMAIN Bank(call.self) :
                IF Bank(call.self)[d] = NULL
                THEN call.log[d + 1] = Event("warning", NULL, 0)
                ELSE /\ call.log[d + 1][1] \in {"train", "reTrain"}
                     /\ call.log[d + 1][2] = Bank(call.self)[d]
                     /\ call.log[d + 1][3] = call.targets[d]
                     /\ heap[Bank(call.self)[d]].trained
    /\ (call.op \in GainOps /\ objects[call.self].dmp_trained) =>
          /\ call.outcome = "ok"
          /\ ~call.oob
          /\ \A i \in DOMAIN call.phase_state : \A d \in DOMAIN Bank(call.self) :
                /\ d \in DOMAIN call.fa_output[i]
                /\ call.fa_output[i][d] =
                      IF d \in PresentSlots(call.self)
                      THEN FA_predict(heap[Bank(call.self)[d]], call.phase_state)[i]
                      ELSE 0

(* C11, the part that holds: in a train call whose asserts hold, a present *)
(* slot that was trained before the call receives reTrain and one that was *)
(* not receives train, and an absent slot stays absent.                    *)
TrainOrReTrainByPriorState ==
    [][(call'.op = "train" /\ call'.outcome = "ok") =>
          /\ Bank(call'.self) = objects'[call'.self].function_approximators_gains_
          /\ \A d \in PresentSlots(call'.self) :
                call'.log[d + 1][1] =
                    IF heap[Bank(call'.self)[d]].trained THEN "reTrain" ELSE "train"]_vars

----------------------------------------------------------------------------
(* What the claim about the file-writing operations speaks of.             *)

\* the file the last file-writing call writes
OutputFile == IF io.op = "writeToFile" THEN "filename" ELSE "plotRollout.py"

(* C12, as claimed: writeToFile and savePlotRolloutScript return false     *)
(* when the output file could not be opened, return true only when it was  *)
(* opened and written, and leave no file open.                             *)
OpenFailureIsReported ==
    io.op \in {"writeToFile", "savePlotRolloutScript"} =>
        /\ io.result = io.opened
        /\ io.result => disk[OutputFile] # NoFile
        /\ ~io.is_open

----------------------------------------------------------------------------
(* C13, as claimed: the bank of every object is empty or as long as the    *)
(* base's original dimensionality, and a computation of gains on a bank    *)
(* that is not empty reads no slot outside the bank.                       *)
BankLengthIsZeroOrDimOrig ==
    /\ \A i \in DOMAIN objects : Len(Bank(i)) \in {0, objects[i].dim_orig}
    /\ (call.op \in GainOps /\ Bank(call.self) # << >>) =>
          /\ ~call.oob
          /\ call.outcome = "ok"

(* C13, the part that holds: no call changes the length of the bank of an  *)
(* object, or which of its slots are absent.                               *)
BankLengthNeverChanges ==
    [][\A i \in DOMAIN objects :
          /\ i \in DOMAIN objects'
          /\ Len(objects'[i].function_approximators_gains_) = Len(Bank(i))
          /\ \A d \in DOMAIN Bank(i) :
                (objects'[i].function_approximators_gains_[d] = NULL)
                   <=> (Bank(i)[d] = NULL)]_vars

====
